---- MODULE Spec2Model ----
(***************************************************************************)
(* QuickChat: the presence registry and the call-signaling relay of the    *)
(* socket server (server/index.cjs), and the call session of the client    *)
(* (VideoCall.tsx, Chat.tsx).                                              *)
(*                                                                         *)
(* Spec          the server: sockets connect, send user_join and the four  *)
(*               webrtc_* events, and disconnect; the handlers that await  *)
(*               the database are split at the await.                      *)
(* PresenceSpec  the connection, user_join and disconnect handlers alone.  *)
(* StatusSpec    PresenceSpec with the status_update handler.              *)
(* CallSpec      two clients (alice on socket 1, bob on socket 2), both    *)
(*               joined, their Chat pages and VideoCall sessions, the peer *)
(*               links and the relay between them.                         *)
(* FairCallSpec  CallSpec where every client's event loop keeps running.   *)
(* VideoSpec     one video call with the video button (toggleVideo).       *)
(* FairVideoSpec VideoSpec where every client's event loop keeps running.  *)
(* TrackSpec     one call with the remote track and its playback.          *)
(* ForeignSpec   one call while call-ended messages of other chats arrive. *)
(* ThirdPartySpec one call while a third user sends offers to a client.    *)
(* LossSpec      one call during which a client's socket may disconnect.   *)
(* FairLossSpec  LossSpec where deliveries, link operations, timers and    *)
(*               the server's disconnect handler keep running.             *)
(***************************************************************************)
EXTENDS Naturals, Integers, Sequences, FiniteSets, Bags, TLC

\* ------------------------------------------------------------------ bounds
NumSockets == 2
MaxPending == 1
MaxCalls == 2
MaxToggles == 2

\* socket ids, in the order the sockets connect
Sockets == 1..NumSockets
\* user ids: non-empty strings (MongoDB ids), so `if (userId)` is true of each
Users == {"alice", "bob"}
\* opaque session descriptions / candidates carried by a signaling message
Bodies == {"sdp"}

\* the payload of a webrtc_* event as the server sees it: it reads data.to only
SigData == [to : Users, body : Bodies]

NoSock == 0
NoUser == ""

VARIABLES
    \* --- the server
    sockState,    \* socket id -> "fresh" | "open" | "closed" (socket.io connection life)
    onlineUsers,  \* Map userId -> Set of socket ids, a Set kept in insertion order
    userSockets,  \* Map socketId -> userId
    pending,      \* handlers suspended on their database await
    out,          \* what the last handler step emitted, in order
    handled,      \* the signaling event or disconnect the last step handled, if any
    \* --- the clients, by socket
    chatOfferListener, \* Chat.tsx: its socket.on('webrtc_offer') listener is registered
    incomingCall,      \* Chat.tsx: incomingCall (the caller's id, or NoUser for null)
    inCall,            \* Chat.tsx: inCall, the VideoCall component is rendered
    vc,                \* the VideoCall component: its state, refs and peer link
    chain,             \* the peer link's operations chain: suspended awaits, oldest first
    queue,             \* iceCandidatesQueue.current
    inbox,             \* events emitted to the socket and not yet dispatched
    orphanMedia,       \* per client: getUserMedia calls pending for unmounted
                       \* components, and streams they delivered that still run
    iceEarly,          \* addIceCandidate was invoked with no remote description
    callsPlaced,       \* calls initiated so far
    candsSent,         \* local ICE candidates sent so far
    lastRecv,          \* the event the last step dispatched, and Chat's view of it
    implicitRollback   \* the browser rolls a local offer back for a remote offer

serverVars == <<sockState, onlineUsers, userSockets, pending, out, handled>>
clientVars == <<chatOfferListener, incomingCall, inCall, vc, chain, queue, inbox,
                orphanMedia, iceEarly, callsPlaced, candsSent, lastRecv,
                implicitRollback>>
vars == <<sockState, onlineUsers, userSockets, pending, out, handled,
          chatOfferListener, incomingCall, inCall, vc, chain, queue, inbox,
          orphanMedia, iceEarly, callsPlaced, candsSent, lastRecv,
          implicitRollback>>

\* ------------------------------------------------------------------ JS Map / Set
\* Set.prototype.add on an insertion-ordered Set
SetAdd(set, s) ==
    IF \E i \in 1..Len(set) : set[i] = s THEN set ELSE Append(set, s)

\* Set.prototype.delete
SetDelete(set, s) == SelectSeq(set, LAMBDA x : x # s)

SetHas(set, s) == \E i \in 1..Len(set) : set[i] = s

Elems(set) == {set[i] : i \in 1..Len(set)}

\* Map.prototype.set / delete / has on a Map modelled as a function
MapSet(map, k, v) == [x \in (DOMAIN map) \cup {k} |-> IF x = k THEN v ELSE map[x]]
MapDelete(map, k) == [x \in (DOMAIN map) \ {k} |-> map[x]]
MapHas(map, k) == k \in DOMAIN map

EmptyMap == [x \in {} |-> 0]

\* a handler suspended on `await mongoose.model('User').findByIdAndUpdate(...)`:
\* the socket and userId its closure holds; wasOnline records whether the user
\* was a key of onlineUsers when the handler started (history, read by no handler)
Awaiting(kind, s, u, wasOnline) ==
    [kind |-> kind, sock |-> s, user |-> u, wasOnline |-> wasOnline]

\* the number of handlers of one kind suspended on the database
Suspended(kind) ==
    LET of == {p \in DOMAIN pending : p.kind = kind}
    IN  IF of = {} THEN 0 ELSE BagCardinality([p \in of |-> pending[p]])

\* ------------------------------------------------------------------ emissions
\* io.to(socketId).emit(ev, data)
EmitTo(sock, ev, data) == [mode |-> "to", sock |-> sock, ev |-> ev, data |-> data]
\* socket.emit(ev, data)
EmitSelf(sock, ev, data) == [mode |-> "self", sock |-> sock, ev |-> ev, data |-> data]
\* socket.broadcast.emit(ev, data): every connected socket but the sender
EmitBroadcast(sock, ev, data) == [mode |-> "broadcast", sock |-> sock, ev |-> ev, data |-> data]

StatusChange(u, st) == [userId |-> u, status |-> st]
CallFailed == [reason |-> "User is offline"]

\* ------------------------------------------------------------------ user_join
\* if (userSocketCount === 1)
IsFirstConnection(userSocketCount) == userSocketCount = 1

\* onlineUsers after lines 61-64
JoinRegistry(map, u, s) ==
    LET withKey == IF ~MapHas(map, u) THEN MapSet(map, u, <<>>) ELSE map
    IN  MapSet(withKey, u, SetAdd(withKey[u], s))

\* the signaling event a relay handler was called with: its name, its payload
\* and the socket it arrived on when the handler reads it
Evt(kind, sock, data) == [kind |-> kind, sock |-> sock, data |-> data]
NoData == [to |-> NoUser, body |-> "none"]
NoEvt == Evt("none", NoSock, NoData)
\* for a disconnect: the user the socket was bound to (userSockets.get(socket.id))
UserData(u) == [to |-> u, body |-> "none"]

\* socket.on('user_join'): the synchronous part, up to the await
UserJoin(s, u) ==
    /\ sockState[s] = "open"
    /\ LET reg == JoinRegistry(onlineUsers, u, s)
       IN  /\ onlineUsers' = reg
           /\ userSockets' = MapSet(userSockets, s, u)
           /\ IF IsFirstConnection(Len(reg[u]))
              THEN /\ Suspended("user_join") < MaxPending
                   /\ pending' = pending (+) SetToBag({Awaiting("user_join", s, u,
                                                                MapHas(onlineUsers, u))})
              ELSE pending' = pending
    /\ out' = <<>>
    /\ handled' = NoEvt
    /\ UNCHANGED sockState
    /\ UNCHANGED clientVars

\* socket.on('user_join'): after the await; the update resolved (ok) or threw
UserJoinResume(p, ok) ==
    /\ BagIn(p, pending)
    /\ p.kind = "user_join"
    /\ pending' = pending (-) SetToBag({p})
    /\ out' = IF ok
              THEN <<EmitBroadcast(p.sock, "user_status_change", StatusChange(p.user, "online"))>>
              ELSE <<>>
    /\ handled' = NoEvt
    /\ UNCHANGED <<sockState, onlineUsers, userSockets>>
    /\ UNCHANGED clientVars

\* ------------------------------------------------------------------ status_update
\* the statuses a client may name in its status_update event
Statuses == {"online", "offline"}

\* socket.on('status_update'): up to the await; data = {userId: u, status: st} is
\* whatever the client sent, the handler reads neither onlineUsers nor userSockets
StatusUpdate(s, u, st) ==
    /\ sockState[s] = "open"
    /\ Suspended("status_update") < MaxPending
    /\ pending' = pending (+) SetToBag({[kind |-> "status_update", sock |-> s, user |-> u,
                                          wasOnline |-> MapHas(onlineUsers, u),
                                          status |-> st]})
    /\ out' = <<>>
    /\ handled' = NoEvt
    /\ UNCHANGED <<sockState, onlineUsers, userSockets>>
    /\ UNCHANGED clientVars

\* socket.on('status_update'): after the await; the update resolved (ok) or threw
StatusUpdateResume(p, ok) ==
    /\ BagIn(p, pending)
    /\ p.kind = "status_update"
    /\ pending' = pending (-) SetToBag({p})
    /\ out' = IF ok
              THEN <<EmitBroadcast(p.sock, "user_status_change", StatusChange(p.user, p.status))>>
              ELSE <<>>
    /\ handled' = NoEvt
    /\ UNCHANGED <<sockState, onlineUsers, userSockets>>
    /\ UNCHANGED clientVars

\* ------------------------------------------------------------------ disconnect
\* mutants of the test: it never succeeds; it succeeds with one socket left
NoMoreConnections_Never(remainingConnections) == remainingConnections < 0
NoMoreConnections_OneLeft(remainingConnections) == remainingConnections <= 1

\* if (remainingConnections === 0)
NoMoreConnections(remainingConnections) == remainingConnections = 0

\* mutant: the handler issues the offline update for whatever userSockets.get returned
NotBound_Offline(s) ==
    /\ pending' = pending (+) SetToBag({Awaiting("disconnect", s, NoUser, FALSE)})
    /\ UNCHANGED <<onlineUsers, userSockets>>

\* `if (userId)` is false for a socket without an entry in userSockets: the
\* handler body is skipped
NotBound(s) == UNCHANGED <<onlineUsers, userSockets, pending>>

\* socket.on('disconnect'): the synchronous part
Disconnect(s) ==
    /\ sockState[s] = "open"
    /\ sockState' = [sockState EXCEPT ![s] = "closed"]
    /\ out' = <<>>
    /\ handled' = Evt("disconnect", s,
                      UserData(IF MapHas(userSockets, s) THEN userSockets[s] ELSE NoUser))
    /\ IF MapHas(userSockets, s)
       THEN LET u == userSockets[s]
            IN  IF MapHas(onlineUsers, u)
                THEN LET rest == SetDelete(onlineUsers[u], s)
                     IN  IF NoMoreConnections(Len(rest))
                         THEN /\ onlineUsers' = MapDelete(onlineUsers, u)
                              /\ pending' = pending (+)
                                     SetToBag({Awaiting("disconnect", s, u, TRUE)})
                              /\ UNCHANGED userSockets
                         ELSE /\ onlineUsers' = MapSet(onlineUsers, u, rest)
                              /\ userSockets' = MapDelete(userSockets, s)
                              /\ UNCHANGED pending
                ELSE /\ userSockets' = MapDelete(userSockets, s)
                     /\ UNCHANGED <<onlineUsers, pending>>
       ELSE NotBound(s)
    /\ UNCHANGED clientVars

\* socket.on('disconnect'): after the await, then userSockets.delete(socket.id)
DisconnectResumed(p, ok) ==
    /\ BagIn(p, pending)
    /\ p.kind = "disconnect"
    /\ pending' = pending (-) SetToBag({p})
    /\ out' = IF ok
              THEN <<EmitBroadcast(p.sock, "user_status_change", StatusChange(p.user, "offline"))>>
              ELSE <<>>
    /\ userSockets' = MapDelete(userSockets, p.sock)
    /\ handled' = NoEvt
    /\ UNCHANGED <<sockState, onlineUsers>>

DisconnectResume(p, ok) ==
    /\ DisconnectResumed(p, ok)
    /\ UNCHANGED clientVars

\* ------------------------------------------------------------------ signaling relay
\* const recipientSockets = onlineUsers.get(data.to)
RecipientSockets(map, to) == IF MapHas(map, to) THEN map[to] ELSE <<>>

\* if (recipientSockets && recipientSockets.size > 0)
Reachable(map, to) == MapHas(map, to) /\ Len(map[to]) > 0

\* mutant: the newest socket of the set
FirstSocket_Last(recipientSockets) == recipientSockets[Len(recipientSockets)]

\* Array.from(recipientSockets)[0]
FirstSocket(recipientSockets) == recipientSockets[1]

\* mutant: no call_failed, as in the webrtc_answer handler
OfferEmits_Silent(map, s, data) ==
    IF Reachable(map, data.to)
    THEN <<EmitTo(FirstSocket(RecipientSockets(map, data.to)), "webrtc_offer", data)>>
    ELSE <<>>

\* socket.on('webrtc_offer')
OfferEmits(map, s, data) ==
    IF Reachable(map, data.to)
    THEN <<EmitTo(FirstSocket(RecipientSockets(map, data.to)), "webrtc_offer", data)>>
    ELSE <<EmitSelf(s, "call_failed", CallFailed)>>

\* socket.on('webrtc_answer')
AnswerEmits(map, s, data) ==
    IF Reachable(map, data.to)
    THEN <<EmitTo(FirstSocket(RecipientSockets(map, data.to)), "webrtc_answer", data)>>
    ELSE <<>>

\* socket.on('webrtc_ice_candidate')
IceEmits(map, s, data) ==
    IF Reachable(map, data.to)
    THEN <<EmitTo(FirstSocket(RecipientSockets(map, data.to)), "webrtc_ice_candidate", data)>>
    ELSE <<>>

\* recipientSockets.forEach(socketId => io.to(socketId).emit('webrtc_call_ended', data))
ForEachEmit(recipientSockets, ev, data) ==
    [i \in 1..Len(recipientSockets) |-> EmitTo(recipientSockets[i], ev, data)]

\* mutant: the first socket only, as the other three handlers
CallEndedEmits_First(map, s, data) ==
    IF Reachable(map, data.to)
    THEN <<EmitTo(FirstSocket(RecipientSockets(map, data.to)), "webrtc_call_ended", data)>>
    ELSE <<>>

\* socket.on('webrtc_call_ended')
CallEndedEmits(map, s, data) ==
    IF Reachable(map, data.to)
    THEN ForEachEmit(RecipientSockets(map, data.to), "webrtc_call_ended", data)
    ELSE <<>>

\* the socket a relay handler reads: only webrtc_offer uses `socket` (socket.emit)
SenderRead(kind, s) == IF kind = "webrtc_offer" THEN s ELSE NoSock

Relay(kind, s, data, emits) ==
    /\ sockState[s] = "open"
    /\ out' = emits
    /\ handled' = Evt(kind, SenderRead(kind, s), data)
    /\ UNCHANGED <<sockState, onlineUsers, userSockets, pending>>
    /\ UNCHANGED clientVars

WebrtcOffer(s, data) == Relay("webrtc_offer", s, data, OfferEmits(onlineUsers, s, data))

\* the other three handlers never read `socket`: the event has the same effect
\* from every connected socket, so one connected sender stands for all
HasSender == \E s \in Sockets : sockState[s] = "open"
AnySender == CHOOSE s \in Sockets : sockState[s] = "open"

WebrtcAnswer(data) ==
    /\ HasSender
    /\ Relay("webrtc_answer", AnySender, data, AnswerEmits(onlineUsers, AnySender, data))
WebrtcIceCandidate(data) ==
    /\ HasSender
    /\ Relay("webrtc_ice_candidate", AnySender, data, IceEmits(onlineUsers, AnySender, data))
WebrtcCallEnded(data) ==
    /\ HasSender
    /\ Relay("webrtc_call_ended", AnySender, data,
             CallEndedEmits(onlineUsers, AnySender, data))

\* ------------------------------------------------------------------ connection
\* io.on('connection'): the socket gets its id when it connects, so the k-th
\* connection is the socket with id k
Connection(s) ==
    /\ sockState[s] = "fresh"
    /\ \A r \in Sockets : r < s => sockState[r] # "fresh"
    /\ sockState' = [sockState EXCEPT ![s] = "open"]
    /\ out' = <<>>
    /\ handled' = NoEvt
    /\ UNCHANGED <<onlineUsers, userSockets, pending>>
    /\ UNCHANGED clientVars

\* ------------------------------------------------------------------ the server
ServerInit ==
    /\ sockState = [s \in Sockets |-> "fresh"]
    /\ onlineUsers = EmptyMap
    /\ userSockets = EmptyMap
    /\ pending = EmptyBag
    /\ out = <<>>
    /\ handled = NoEvt

\* the handlers that write the presence registry
PresenceNext ==
    \/ \E s \in Sockets : Connection(s)
    \/ \E s \in Sockets, u \in Users : UserJoin(s, u)
    \/ \E p \in DOMAIN pending, ok \in BOOLEAN : UserJoinResume(p, ok)
    \/ \E s \in Sockets : Disconnect(s)
    \/ \E p \in DOMAIN pending, ok \in BOOLEAN : DisconnectResume(p, ok)

Next ==
    \/ \E s \in Sockets : Connection(s)
    \/ \E s \in Sockets, u \in Users : UserJoin(s, u)
    \/ \E p \in DOMAIN pending, ok \in BOOLEAN : UserJoinResume(p, ok)
    \/ \E s \in Sockets : Disconnect(s)
    \/ \E p \in DOMAIN pending, ok \in BOOLEAN : DisconnectResume(p, ok)
    \/ \E s \in Sockets, data \in SigData : WebrtcOffer(s, data)
    \/ \E data \in SigData : WebrtcAnswer(data)
    \/ \E data \in SigData : WebrtcIceCandidate(data)
    \/ \E data \in SigData : WebrtcCallEnded(data)

\* ------------------------------------------------------------------ the clients
\* the two browser tabs of a call, named by their sockets
Clients == {1, 2}
UserOf(c) == IF c = 1 THEN "alice" ELSE "bob"
\* activeChat.friend._id of the one chat between the two
FriendOf(c) == IF c = 1 THEN "bob" ELSE "alice"
ChatId == "chat1"
\* the candidates a peer link discovers, in order
CandIds == <<"cand1">>

\* the payload of a client's webrtc_* event
Sig(to, from, body) == [to |-> to, from |-> from, chatId |-> ChatId, body |-> body]

\* a VideoCall component that was never mounted
NoSession ==
    [status |-> "none", mounted |-> FALSE, initiator |-> FALSE, media |-> "none",
     pc |-> "none", sig |-> "stable", localDesc |-> FALSE, remote |-> FALSE,
     negEvent |-> FALSE, conn |-> "new", error |-> "none", answers |-> 0, cleanups |-> 0,
     \* the video controls of a video call: isVideoOff, clicks of the video
     \* button, pending getUserMedia calls of toggleVideo, video tracks acquired
     \* so far, the video senders of the peer link and the track they carry
     videoOff |-> FALSE, toggles |-> 0, acquiring |-> 0, lastTrack |-> 0,
     senders |-> 0, senderTrack |-> 0,
     \* the setTimeout(handleEndCall, 2000) timers of the call_failed listener
     failTimers |-> 0,
     \* the calls of onEndCall (Chat's endCall) made by the session
     endCalls |-> 0,
     \* ontrack: setRemoteStream was called; the play() of the remote element
     remoteStream |-> FALSE, play |-> "none"]

NoRecv == [sock |-> NoSock, ev |-> "none", chat |-> FALSE]

ClientsIdle ==
    /\ chatOfferListener = [c \in Clients |-> TRUE]
    /\ incomingCall = [c \in Clients |-> NoUser]
    /\ inCall = [c \in Clients |-> FALSE]
    /\ vc = [c \in Clients |-> NoSession]
    /\ chain = [c \in Clients |-> <<>>]
    /\ queue = [c \in Clients |-> <<>>]
    /\ inbox = [c \in Clients |-> <<>>]
    /\ orphanMedia = [c \in Clients |-> [pending |-> 0, live |-> 0]]
    /\ iceEarly = [c \in Clients |-> FALSE]
    /\ callsPlaced = 0
    /\ candsSent = [c \in Clients |-> 0]
    /\ lastRecv = NoRecv

ServerFixed == UNCHANGED <<sockState, onlineUsers, userSockets, pending, implicitRollback>>

\* --- socket.emit on a client: the server's handler runs and its emissions reach
\* the sockets they name
ServerEmits(ev, c, data) ==
    CASE ev = "webrtc_offer" -> OfferEmits(onlineUsers, c, data)
      [] ev = "webrtc_answer" -> AnswerEmits(onlineUsers, c, data)
      [] ev = "webrtc_ice_candidate" -> IceEmits(onlineUsers, c, data)
      [] ev = "webrtc_call_ended" -> CallEndedEmits(onlineUsers, c, data)

RECURSIVE Route(_, _, _)
Route(inb, emits, c) ==
    IF emits = <<>>
    THEN inb
    ELSE LET e == Head(emits)
             r == IF e.mode = "self" THEN c ELSE e.sock
         IN  Route(IF r \in Clients /\ sockState[r] = "open"
                   THEN [inb EXCEPT ![r] = Append(@, [ev |-> e.ev, data |-> e.data])]
                   ELSE inb,
                   Tail(emits), c)

\* msgs: the events the step emits (at most one), inb: the inboxes before them
Emit(c, msgs, inb) ==
    \* a disconnected socket.io client buffers what it emits
    IF msgs = <<>> \/ sockState[c] # "open"
    THEN /\ out' = <<>>
         /\ handled' = NoEvt
         /\ inbox' = inb
    ELSE LET m == msgs[1]
         IN  /\ out' = ServerEmits(m.ev, c, m.data)
             /\ handled' = Evt(m.ev, SenderRead(m.ev, c), m.data)
             /\ inbox' = Route(inb, ServerEmits(m.ev, c, m.data), c)

Msg(ev, data) == [ev |-> ev, data |-> data]

\* --- Chat.tsx
\* the VideoCall component mounts: useState initial values, the media effect
\* calls getUserMedia, the listeners effect registers the socket listeners
Mount(c, initiator) ==
    [NoSession EXCEPT !.status = "connecting", !.mounted = TRUE,
                      !.initiator = initiator, !.media = "pending"]

\* initiateCall
InitiateCall(c) ==
    /\ ~inCall[c]
    /\ incomingCall[c] = NoUser
    /\ callsPlaced < MaxCalls
    /\ callsPlaced' = callsPlaced + 1
    /\ inCall' = [inCall EXCEPT ![c] = TRUE]
    /\ vc' = [vc EXCEPT ![c] = Mount(c, TRUE)]
    /\ queue' = [queue EXCEPT ![c] = <<>>]
    /\ lastRecv' = NoRecv
    /\ Emit(c, <<>>, inbox)
    /\ ServerFixed
    /\ UNCHANGED <<chatOfferListener, incomingCall, chain, orphanMedia, iceEarly,
                   candsSent>>

\* acceptCall; ok: the chat was found and its messages loaded
AcceptCall(c, ok) ==
    /\ incomingCall[c] # NoUser
    /\ incomingCall' = [incomingCall EXCEPT ![c] = NoUser]
    /\ IF ok /\ ~inCall[c]
       THEN /\ inCall' = [inCall EXCEPT ![c] = TRUE]
            /\ vc' = [vc EXCEPT ![c] = Mount(c, FALSE)]
            /\ queue' = [queue EXCEPT ![c] = <<>>]
            /\ UNCHANGED chatOfferListener
       ELSE /\ UNCHANGED <<inCall, vc, queue>>
            \* Chat renders again with a new endCall: the listeners effect of a
            \* mounted VideoCall runs its cleanup, socket.off('webrtc_offer')
            /\ chatOfferListener' =
                   [chatOfferListener EXCEPT ![c] = IF vc[c].mounted THEN FALSE ELSE @]
    /\ lastRecv' = NoRecv
    /\ Emit(c, <<>>, inbox)
    /\ ServerFixed
    /\ UNCHANGED <<chain, orphanMedia, iceEarly, callsPlaced, candsSent>>

\* rejectCall
RejectCall(c) ==
    /\ incomingCall[c] # NoUser
    /\ incomingCall' = [incomingCall EXCEPT ![c] = NoUser]
    /\ chatOfferListener' =
           [chatOfferListener EXCEPT ![c] = IF vc[c].mounted THEN FALSE ELSE @]
    /\ lastRecv' = NoRecv
    /\ Emit(c, <<Msg("webrtc_call_ended", Sig(incomingCall[c], NoUser, "none"))>>, inbox)
    /\ ServerFixed
    /\ UNCHANGED <<inCall, vc, chain, queue, orphanMedia, iceEarly, callsPlaced,
                   candsSent>>

\* --- VideoCall: the media effect
Op(h, op, from, cand) == [h |-> h, op |-> op, from |-> from, cand |-> cand]

\* mutant: setCallStatus('ringing') outside the `if (isInitiator)`
PhaseAfterMedia_Ringing(status, initiator) == "ringing"

\* if (isInitiator) { setCallStatus('ringing'); ... }
PhaseAfterMedia(status, initiator) == IF initiator THEN "ringing" ELSE status

\* getUserMedia settles for the mounted component; on success
\* initializePeerConnection runs up to its first await
MediaResolve(c, ok) ==
    /\ vc[c].mounted
    /\ vc[c].media = "pending"
    /\ IF ok
       THEN /\ vc' = [vc EXCEPT ![c] =
                        [@ EXCEPT !.media = "live", !.pc = "open", !.negEvent = TRUE,
                                  !.lastTrack = 1, !.senders = 1, !.senderTrack = 1,
                                  !.status = PhaseAfterMedia(@, vc[c].initiator)]]
            /\ chain' = [chain EXCEPT ![c] =
                           IF vc[c].initiator
                           THEN <<Op("init", "createOffer", NoUser, "none")>>
                           ELSE <<>>]
            \* setLocalStream: handleEndCall changes, the listeners effect runs its
            \* cleanup (socket.off of the five events) and registers again
            /\ chatOfferListener' = [chatOfferListener EXCEPT ![c] = FALSE]
       ELSE /\ vc' = [vc EXCEPT ![c] =
                        [@ EXCEPT !.media = "failed", !.error = "media", !.status = "ended"]]
            /\ UNCHANGED <<chain, chatOfferListener>>
    /\ lastRecv' = NoRecv
    /\ Emit(c, <<>>, inbox)
    /\ ServerFixed
    /\ UNCHANGED <<incomingCall, inCall, queue, orphanMedia, iceEarly, callsPlaced,
                   candsSent>>

\* mutant: `if (!mounted) return;` without stopping the tracks
StreamsLeftLive_Returned(streams) == streams

\* stream.getTracks().forEach(track => track.stop()): of the streams acquired
\* for an unmounted component none keeps running
StreamsLeftLive(streams) == 0

\* getUserMedia settles after the unmount: if (!mounted) the tracks are stopped
\* and initializeMedia returns
OrphanMediaResolve(c) ==
    /\ orphanMedia[c].pending > 0
    /\ orphanMedia' = [orphanMedia EXCEPT ![c] =
                          [pending |-> @.pending - 1, live |-> @.live + StreamsLeftLive(1)]]
    /\ lastRecv' = [sock |-> c, ev |-> "getUserMedia", chat |-> FALSE]
    /\ Emit(c, <<>>, inbox)
    /\ ServerFixed
    /\ UNCHANGED <<chatOfferListener, incomingCall, inCall, vc, chain, queue, iceEarly, callsPlaced, candsSent>>

\* --- the peer link (RTCPeerConnection)
\* whether the operation at the head of the chain succeeds in the link's state
OpOk(op, v) ==
    /\ v.pc = "open"
    /\ CASE op = "createOffer" -> v.sig \in {"stable", "have-local-offer"}
         [] op = "setLocalOffer" -> v.sig \in {"stable", "have-local-offer"}
         [] op = "setRemoteOffer" ->
                \/ v.sig \in {"stable", "have-remote-offer"}
                \/ v.sig = "have-local-offer" /\ implicitRollback
         [] op = "createAnswer" -> v.sig = "have-remote-offer"
         [] op = "setLocalAnswer" -> v.sig = "have-remote-offer"
         [] op = "setRemoteAnswer" -> v.sig = "have-local-offer"
         [] op = "addIceCandidate" -> v.remote
         [] op = "replaceTrack" -> TRUE

\* the link after the operation succeeded
OpEffect(op, v) ==
    CASE op = "setLocalOffer" -> [v EXCEPT !.sig = "have-local-offer", !.localDesc = TRUE]
      [] op = "setRemoteOffer" -> [v EXCEPT !.sig = "have-remote-offer", !.remote = TRUE]
      [] op = "setLocalAnswer" ->
             [v EXCEPT !.sig = "stable", !.localDesc = TRUE, !.negEvent = FALSE]
      [] op = "setRemoteAnswer" ->
             [v EXCEPT !.sig = "stable", !.remote = TRUE, !.negEvent = FALSE]
      [] OTHER -> v

\* toggleVideo called addTrack on the peer link
SendersAfterReplace_AddTrack(senders) == senders + 1

\* videoSender.replaceTrack(newVideoTrack): the sender stays, its track changes
SendersAfterReplace(senders) == senders

\* a listener that applies every candidate at once
CanApplyNow_Always(v) == TRUE

\* if (peerConnectionRef.current.remoteDescription): apply now, else queue
CanApplyNow(v) == v.remote

\* a handler result: the component, the awaits it adds to the chain, the
\* candidate queue, the events it emits
Res(v, next, q, msgs) == [v |-> v, next |-> next, q |-> q, msgs |-> msgs]

\* `while (iceCandidatesQueue.current.length > 0)` of the offer and answer
\* handlers, then the rest of the handler
AfterRemote(c, k, v, q) ==
    IF q # <<>>
    THEN Res(v, <<Op(k.h, "addIceCandidate", k.from, Head(q))>>, Tail(q), <<>>)
    ELSE IF k.h = "onOffer"
         THEN Res(v, <<Op("onOffer", "createAnswer", k.from, "none")>>, q, <<>>)
         ELSE Res([v EXCEPT !.status = "connected"], <<>>, q, <<>>)

\* the handler suspended on operation k resumes after the operation succeeded
Resume(c, k, v, q) ==
    CASE k.op = "createOffer" ->
             Res(v, <<Op(k.h, "setLocalOffer", k.from, "none")>>, q, <<>>)
      [] k.op = "setLocalOffer" ->
             Res(v, <<>>, q,
                 <<Msg("webrtc_offer", Sig(FriendOf(c), UserOf(c), "sdp"))>>)
      [] k.op = "setRemoteOffer" -> AfterRemote(c, k, v, q)
      [] k.op = "setRemoteAnswer" -> AfterRemote(c, k, v, q)
      [] k.op = "addIceCandidate" ->
             IF k.h = "onIce" THEN Res(v, <<>>, q, <<>>) ELSE AfterRemote(c, k, v, q)
      [] k.op = "createAnswer" ->
             Res(v, <<Op("onOffer", "setLocalAnswer", k.from, "none")>>, q, <<>>)
      [] k.op = "setLocalAnswer" ->
             Res([v EXCEPT !.answers = @ + 1, !.status = "connected"], <<>>, q,
                 <<Msg("webrtc_answer", Sig(k.from, UserOf(c), "sdp"))>>)
      \* toggleVideo after `await videoSender.replaceTrack(newVideoTrack)`:
      \* localStream.addTrack, setIsVideoOff(false)
      [] k.op = "replaceTrack" ->
             Res([v EXCEPT !.senders = SendersAfterReplace(@), !.senderTrack = k.track,
                           !.videoOff = FALSE], <<>>, q, <<>>)

\* the catch block of the handler suspended on operation k
Catch(c, k, v, q) ==
    IF k.h \in {"init", "onOffer"}
    THEN Res([v EXCEPT !.error = "connection"], <<>>, q, <<>>)
    ELSE IF k.h = "toggle"
         THEN Res([v EXCEPT !.error = "toggle"], <<>>, q, <<>>)
         ELSE Res(v, <<>>, q, <<>>)

\* the operation at the head of the chain settles and its handler runs to its
\* next await
OpComplete(c) ==
    /\ chain[c] # <<>>
    /\ LET k == Head(chain[c])
           ok == OpOk(k.op, vc[c])
           r == IF ok
                THEN Resume(c, k, OpEffect(k.op, vc[c]), queue[c])
                ELSE Catch(c, k, vc[c], queue[c])
       IN  /\ vc' = [vc EXCEPT ![c] = r.v]
           /\ chain' = [chain EXCEPT ![c] = Tail(@) \o r.next]
           /\ queue' = [queue EXCEPT ![c] = r.q]
           /\ iceEarly' = [iceEarly EXCEPT ![c] =
                              @ \/ \E i \in 1..Len(r.next) :
                                      r.next[i].op = "addIceCandidate" /\ ~r.v.remote]
           /\ Emit(c, r.msgs, inbox)
    /\ lastRecv' = NoRecv
    /\ ServerFixed
    /\ UNCHANGED <<chatOfferListener, incomingCall, inCall, orphanMedia, callsPlaced,
                   candsSent>>

\* --- toggleVideo (the calls are video calls: the button is rendered and
\* `callType !== 'video'` is false)
ReplaceOp(track) ==
    [h |-> "toggle", op |-> "replaceTrack", from |-> NoUser, cand |-> "none",
     track |-> track]

\* a click on the video button: turning off disables the tracks, turning on
\* stops the old video track and calls getUserMedia
ToggleVideo(c) ==
    /\ vc[c].mounted
    /\ vc[c].media = "live"
    /\ vc[c].pc # "none"
    /\ vc[c].toggles < MaxToggles
    /\ vc' = [vc EXCEPT ![c] =
                 IF ~vc[c].videoOff
                 THEN [@ EXCEPT !.toggles = @ + 1, !.videoOff = TRUE]
                 ELSE [@ EXCEPT !.toggles = @ + 1, !.acquiring = @ + 1]]
    /\ lastRecv' = NoRecv
    /\ Emit(c, <<>>, inbox)
    /\ ServerFixed
    /\ UNCHANGED <<chatOfferListener, incomingCall, inCall, chain, queue, orphanMedia,
                   iceEarly, callsPlaced, candsSent>>

\* the getUserMedia of toggleVideo settles: the video sender is looked up and
\* replaceTrack is called; a closed link has no senders
ToggleMediaResolve(c, ok) ==
    /\ vc[c].acquiring > 0
    /\ IF ok
       THEN /\ vc' = [vc EXCEPT ![c] =
                        [@ EXCEPT !.acquiring = @ - 1, !.lastTrack = @ + 1,
                                  !.videoOff = IF vc[c].pc = "open" /\ vc[c].senders > 0
                                               THEN @ ELSE FALSE]]
            /\ chain' = [chain EXCEPT ![c] =
                           IF vc[c].pc = "open" /\ vc[c].senders > 0
                           THEN Append(@, ReplaceOp(vc[c].lastTrack + 1))
                           ELSE @]
       ELSE /\ vc' = [vc EXCEPT ![c] = [@ EXCEPT !.acquiring = @ - 1, !.error = "toggle"]]
            /\ UNCHANGED chain
    /\ lastRecv' = NoRecv
    /\ Emit(c, <<>>, inbox)
    /\ ServerFixed
    /\ UNCHANGED <<chatOfferListener, incomingCall, inCall, queue, orphanMedia, iceEarly,
                   callsPlaced, candsSent>>

\* mutant: the event fires while operations of the link are still running
EventDue_Eager(v, ops) == v.negEvent /\ v.sig = "stable"

\* the link fires negotiationneeded when negotiation is needed, the signaling
\* state is stable and the operations chain is empty
EventDue(v, ops) == v.negEvent /\ v.sig = "stable" /\ ops = <<>>

\* peerConnection.onnegotiationneeded: the handler returns unless
\* signalingState is 'stable', else it calls createOffer
NegotiationNeeded(c) ==
    /\ vc[c].pc = "open"
    /\ EventDue(vc[c], chain[c])
    /\ vc[c].sig = "stable"
    /\ vc' = [vc EXCEPT ![c] = [@ EXCEPT !.negEvent = FALSE]]
    /\ chain' = [chain EXCEPT ![c] = Append(@, Op("neg", "createOffer", NoUser, "none"))]
    /\ lastRecv' = NoRecv
    /\ Emit(c, <<>>, inbox)
    /\ ServerFixed
    /\ UNCHANGED <<chatOfferListener, incomingCall, inCall, queue, orphanMedia, iceEarly, callsPlaced, candsSent>>

\* peerConnection.onicecandidate
LocalIceCandidate(c) ==
    /\ vc[c].pc = "open"
    /\ vc[c].localDesc
    /\ candsSent[c] < Len(CandIds)
    /\ candsSent' = [candsSent EXCEPT ![c] = @ + 1]
    /\ lastRecv' = NoRecv
    /\ Emit(c, <<Msg("webrtc_ice_candidate",
                     Sig(FriendOf(c), NoUser, CandIds[candsSent[c] + 1]))>>, inbox)
    /\ ServerFixed
    /\ UNCHANGED <<chatOfferListener, incomingCall, inCall, vc, chain, queue, orphanMedia,
                   iceEarly, callsPlaced>>

\* --- peerConnection.ontrack
\* the first remote track arrives once a remote description is applied:
\* setRemoteStream, srcObject, play()
RemoteTrack(c) ==
    /\ vc[c].mounted
    /\ vc[c].pc = "open"
    /\ vc[c].remote
    /\ ~vc[c].remoteStream
    /\ vc' = [vc EXCEPT ![c] = [@ EXCEPT !.remoteStream = TRUE, !.play = "pending"]]
    /\ lastRecv' = NoRecv
    /\ Emit(c, <<>>, inbox)
    /\ ServerFixed
    /\ UNCHANGED <<chatOfferListener, incomingCall, inCall, chain, queue, orphanMedia,
                   iceEarly, callsPlaced, candsSent>>

\* play().then(() => setCallStatus('connected')); the catch only logs and
\* schedules the retry
PhaseAfterPlay(status, played) == IF played THEN "connected" ELSE status

\* the promise of play() settles; the browser may block autoplay. The state
\* setter of an unmounted component does nothing
PlaySettles(c, played) ==
    /\ vc[c].play = "pending"
    /\ vc' = [vc EXCEPT ![c] =
                 [@ EXCEPT !.play = IF played THEN "playing" ELSE "retry",
                           !.status = IF vc[c].mounted
                                      THEN PhaseAfterPlay(@, played)
                                      ELSE @]]
    /\ lastRecv' = NoRecv
    /\ Emit(c, <<>>, inbox)
    /\ ServerFixed
    /\ UNCHANGED <<chatOfferListener, incomingCall, inCall, chain, queue, orphanMedia,
                   iceEarly, callsPlaced, candsSent>>

\* setTimeout(() => remoteVideoRef.current?.play().catch(log), 500): the retry
\* sets no phase, whether it plays or not
PlayRetry(c, played) ==
    /\ vc[c].play = "retry"
    /\ vc' = [vc EXCEPT ![c] = [@ EXCEPT !.play = IF played /\ vc[c].mounted
                                                   THEN "playing" ELSE "blocked"]]
    /\ lastRecv' = NoRecv
    /\ Emit(c, <<>>, inbox)
    /\ ServerFixed
    /\ UNCHANGED <<chatOfferListener, incomingCall, inCall, chain, queue, orphanMedia,
                   iceEarly, callsPlaced, candsSent>>

\* peerConnection.onconnectionstatechange with connectionState 'connected'
ConnectionStateConnected(c) ==
    /\ vc[c].pc = "open"
    /\ vc[c].localDesc
    /\ vc[c].remote
    /\ vc[c].sig = "stable"
    /\ vc[c].conn = "new"
    /\ vc' = [vc EXCEPT ![c] = [@ EXCEPT !.conn = "connected", !.status = "connected"]]
    /\ lastRecv' = NoRecv
    /\ Emit(c, <<>>, inbox)
    /\ ServerFixed
    /\ UNCHANGED <<chatOfferListener, incomingCall, inCall, chain, queue, orphanMedia,
                   iceEarly, callsPlaced, candsSent>>

\* --- handleEndCall, then Chat's endCall and the unmount of the component
\* cleanup() of a render whose localStream is set (sees) or still null: the
\* tracks of the localStream it sees stop, the peer link closes
Cleanup(v, sees) ==
    [v EXCEPT !.status = "ended",
              !.media = IF sees /\ @ = "live" THEN "stopped" ELSE @,
              !.pc = IF @ = "open" THEN "closed" ELSE @,
              !.sig = IF v.pc = "open" THEN "closed" ELSE @,
              !.negEvent = FALSE,
              !.cleanups = @ + 1]

\* the cleanup of the media effect at the unmount: mounted = false, then the
\* cleanup() of the first render, whose localStream is null
Unmount(v) ==
    Cleanup([v EXCEPT !.mounted = FALSE,
                      !.media = IF @ = "pending" THEN "cancelled" ELSE @], FALSE)

\* handleEndCall of the current render, and the unmount that onEndCall causes
Ended(v) == Unmount(Cleanup(v, TRUE))

\* handleEndCall of the first render, which the handlers of the peer link hold
EndedStale(v) == Unmount(Cleanup(v, FALSE))

EndCallAs(c, inb, ended) ==
    /\ vc' = [vc EXCEPT ![c] = [ended EXCEPT !.endCalls = @ + 1]]
    /\ chain' = [chain EXCEPT ![c] = <<>>]
    /\ inCall' = [inCall EXCEPT ![c] = FALSE]
    /\ orphanMedia' = [orphanMedia EXCEPT ![c] =
                          IF vc[c].media = "pending"
                          THEN [@ EXCEPT !.pending = @ + 1]
                          ELSE @]
    \* the cleanup of the listeners effect: socket.off('webrtc_offer') and the others
    /\ chatOfferListener' = [chatOfferListener EXCEPT ![c] = FALSE]
    /\ Emit(c, <<Msg("webrtc_call_ended", Sig(FriendOf(c), NoUser, "none"))>>, inb)

EndCall(c, inb) == EndCallAs(c, inb, Ended(vc[c]))

\* peerConnection.onconnectionstatechange with connectionState 'failed' or
\* 'disconnected': the transports of a negotiated link lose connectivity
ConnectionStateFailed(c) ==
    /\ vc[c].pc = "open"
    /\ vc[c].localDesc
    /\ vc[c].remote
    /\ EndCallAs(c, inbox, [EndedStale(vc[c]) EXCEPT !.conn = "failed"])
    /\ lastRecv' = NoRecv
    /\ ServerFixed
    /\ UNCHANGED <<incomingCall, queue, iceEarly, callsPlaced, candsSent>>

\* the end-call button
HangUp(c) ==
    /\ inCall[c]
    /\ vc[c].mounted
    /\ EndCall(c, inbox)
    /\ lastRecv' = NoRecv
    /\ ServerFixed
    /\ UNCHANGED <<incomingCall, queue, iceEarly, callsPlaced, candsSent>>

\* mutant: every answer is applied to the peer link
AcceptsAnswer_Any(v) == v.pc # "none"

\* if (peerConnectionRef.current && signalingState !== 'stable')
AcceptsAnswer(v) == v.pc # "none" /\ v.sig # "stable"

\* mutant: the listener ends the session on every webrtc_call_ended
ForThisChat_Any(data) == TRUE

\* if (data.chatId === chatId)
ForThisChat(data) == data.chatId = ChatId

\* --- the socket dispatches the next event to the listeners registered for it
Deliver(c) ==
    /\ sockState[c] = "open"
    /\ inbox[c] # <<>>
    /\ LET m == Head(inbox[c])
           rest == [inbox EXCEPT ![c] = Tail(@)]
           v == vc[c]
           toChat == m.ev = "webrtc_offer" /\ chatOfferListener[c]
       IN  /\ lastRecv' = [sock |-> c, ev |-> m.ev, chat |-> toChat]
           /\ CASE m.ev = "webrtc_offer" ->
                    \* Chat's listener: setIncomingCall
                    /\ incomingCall' =
                           [incomingCall EXCEPT ![c] = IF toChat THEN m.data.from ELSE @]
                    /\ chatOfferListener' =
                           [chatOfferListener EXCEPT ![c] =
                               IF toChat /\ v.mounted THEN FALSE ELSE @]
                    \* VideoCall's listener
                    /\ chain' = [chain EXCEPT ![c] =
                           IF v.mounted /\ m.data.to = UserOf(c) /\ v.pc # "none"
                           THEN Append(@, Op("onOffer", "setRemoteOffer", m.data.from, "none"))
                           ELSE @]
                    /\ Emit(c, <<>>, rest)
                    /\ UNCHANGED <<vc, queue, inCall, orphanMedia, iceEarly>>
                [] m.ev = "webrtc_answer" ->
                    /\ chain' = [chain EXCEPT ![c] =
                           IF v.mounted /\ AcceptsAnswer(v)
                           THEN Append(@, Op("onAnswer", "setRemoteAnswer", m.data.from, "none"))
                           ELSE @]
                    /\ Emit(c, <<>>, rest)
                    /\ UNCHANGED <<vc, queue, inCall, orphanMedia, iceEarly, incomingCall,
                                   chatOfferListener>>
                [] m.ev = "webrtc_ice_candidate" ->
                    /\ IF v.mounted /\ v.pc # "none"
                       THEN IF CanApplyNow(v)
                            THEN /\ chain' = [chain EXCEPT ![c] =
                                        Append(@, Op("onIce", "addIceCandidate", NoUser,
                                                     m.data.body))]
                                 /\ iceEarly' = [iceEarly EXCEPT ![c] = @ \/ ~v.remote]
                                 /\ UNCHANGED queue
                            ELSE /\ queue' = [queue EXCEPT ![c] = Append(@, m.data.body)]
                                 /\ UNCHANGED <<chain, iceEarly>>
                       ELSE UNCHANGED <<chain, queue, iceEarly>>
                    /\ Emit(c, <<>>, rest)
                    /\ UNCHANGED <<vc, inCall, orphanMedia, incomingCall, chatOfferListener>>
                [] m.ev = "webrtc_call_ended" ->
                    /\ IF v.mounted /\ ForThisChat(m.data)
                       THEN EndCall(c, rest)
                       ELSE /\ Emit(c, <<>>, rest)
                            /\ UNCHANGED <<vc, chain, inCall, orphanMedia, chatOfferListener>>
                    /\ UNCHANGED <<queue, iceEarly, incomingCall>>
                [] m.ev = "call_failed" ->
                    \* VideoCall's listener: setError, setTimeout(handleEndCall, 2000)
                    /\ vc' = [vc EXCEPT ![c] =
                                 IF v.mounted
                                 THEN [@ EXCEPT !.error = "offline", !.failTimers = @ + 1]
                                 ELSE @]
                    /\ Emit(c, <<>>, rest)
                    /\ UNCHANGED <<chain, queue, inCall, orphanMedia, iceEarly, incomingCall,
                                   chatOfferListener>>
                [] m.ev = "user_status_change" ->
                    \* Chat's listener updates the friend and chat lists; VideoCall
                    \* has no listener for it
                    /\ Emit(c, <<>>, rest)
                    /\ UNCHANGED <<vc, chain, queue, inCall, orphanMedia, iceEarly,
                                   incomingCall, chatOfferListener>>
    /\ ServerFixed
    /\ UNCHANGED <<callsPlaced, candsSent>>

\* the timer of the call_failed listener fires; unmounting does not clear it
CallFailedTimer(c) ==
    /\ vc[c].failTimers > 0
    \* handleEndCall runs again in a session that was unmounted meanwhile
    /\ EndCallAs(c, inbox,
                 [(IF vc[c].mounted THEN Ended(vc[c]) ELSE Cleanup(vc[c], TRUE))
                      EXCEPT !.failTimers = @ - 1])
    /\ lastRecv' = NoRecv
    /\ ServerFixed
    /\ UNCHANGED <<incomingCall, queue, iceEarly, callsPlaced, candsSent>>

\* --- a third friend, in another chat with the user of client c, ends a call
\* there: the server relays its webrtc_call_ended by the `to` field alone
OtherChatId == "chat2"
OtherChatEnded(c) == [Sig(UserOf(c), NoUser, "none") EXCEPT !.chatId = OtherChatId]

ForeignCallEnded(c) ==
    /\ \A i \in 1..Len(inbox[c]) : inbox[c][i].data # OtherChatEnded(c)
    /\ out' = CallEndedEmits(onlineUsers, NoSock, OtherChatEnded(c))
    /\ handled' = Evt("webrtc_call_ended", NoSock, OtherChatEnded(c))
    /\ inbox' = Route(inbox, out', NoSock)
    /\ lastRecv' = NoRecv
    /\ ServerFixed
    /\ UNCHANGED <<chatOfferListener, incomingCall, inCall, vc, chain, queue, orphanMedia,
                   iceEarly, callsPlaced, candsSent>>

\* --- the third friend calls the user of client c: its webrtc_offer names
\* itself as sender and the chat the two share
ThirdUser == "carol"
ThirdUserOffer(c) == [Sig(UserOf(c), ThirdUser, "sdp") EXCEPT !.chatId = OtherChatId]

ForeignOffer(c) ==
    /\ \A i \in 1..Len(inbox[c]) : inbox[c][i].data # ThirdUserOffer(c)
    /\ \A i \in 1..Len(chain[c]) : chain[c][i].from # ThirdUser
    /\ out' = OfferEmits(onlineUsers, NoSock, ThirdUserOffer(c))
    /\ handled' = Evt("webrtc_offer", NoSock, ThirdUserOffer(c))
    /\ inbox' = Route(inbox, out', NoSock)
    /\ lastRecv' = NoRecv
    /\ ServerFixed
    /\ UNCHANGED <<chatOfferListener, incomingCall, inCall, vc, chain, queue, orphanMedia,
                   iceEarly, callsPlaced, candsSent>>

\* --- a client's connection to the chat server is lost during a call
\* socket.broadcast.emit reaches every connected socket but the sender's
RouteBroadcast(inb, emits) ==
    IF emits = <<>>
    THEN inb
    ELSE [r \in Clients |->
             IF r # emits[1].sock /\ sockState[r] = "open"
             THEN Append(inb[r], [ev |-> emits[1].ev, data |-> emits[1].data])
             ELSE inb[r]]

\* the server handles the disconnect of client c's socket; Chat's 'disconnect'
\* listener only logs
ConnectionLost(c) ==
    /\ callsPlaced > 0
    /\ Disconnect(c)

\* the disconnect handler resumes and its broadcast reaches the other client
OfflineNotice(p, ok) ==
    /\ DisconnectResumed(p, ok)
    /\ inbox' = RouteBroadcast(inbox, out')
    /\ lastRecv' = NoRecv
    /\ UNCHANGED implicitRollback
    /\ UNCHANGED <<chatOfferListener, incomingCall, inCall, vc, chain, queue, orphanMedia,
                   iceEarly, callsPlaced, candsSent>>

\* ------------------------------------------------------------------ specifications
\* the server under arbitrary clients
Init == ServerInit /\ ClientsIdle /\ implicitRollback = FALSE

Spec == Init /\ [][Next]_vars

\* the presence handlers alone: the relay handlers neither write the registry nor
\* broadcast a status
PresenceSpec == Init /\ [][PresenceNext]_vars

\* the presence handlers and status_update
StatusNext ==
    \/ \E s \in Sockets : Connection(s)
    \/ \E s \in Sockets, u \in Users : UserJoin(s, u)
    \/ \E p \in DOMAIN pending, ok \in BOOLEAN : UserJoinResume(p, ok)
    \/ \E s \in Sockets : Disconnect(s)
    \/ \E p \in DOMAIN pending, ok \in BOOLEAN : DisconnectResume(p, ok)
    \/ \E s \in Sockets, u \in Users, st \in Statuses : StatusUpdate(s, u, st)
    \/ \E p \in DOMAIN pending, ok \in BOOLEAN : StatusUpdateResume(p, ok)

StatusSpec == Init /\ [][StatusNext]_vars

\* two joined clients and the relay
CallInit ==
    /\ sockState = [s \in Sockets |-> IF s \in Clients THEN "open" ELSE "fresh"]
    /\ onlineUsers = [u \in {UserOf(c) : c \in Clients} |->
                         <<CHOOSE c \in Clients : UserOf(c) = u>>]
    /\ userSockets = [c \in Clients |-> UserOf(c)]
    /\ pending = EmptyBag
    /\ out = <<>>
    /\ handled = NoEvt
    /\ ClientsIdle
    \* the browsers either roll a pending local offer back or reject the remote one
    /\ implicitRollback \in BOOLEAN

CallNext ==
    \/ \E c \in Clients : InitiateCall(c)
    \/ \E c \in Clients, ok \in BOOLEAN : AcceptCall(c, ok)
    \/ \E c \in Clients : RejectCall(c)
    \/ \E c \in Clients, ok \in BOOLEAN : MediaResolve(c, ok)
    \/ \E c \in Clients : OrphanMediaResolve(c)
    \/ \E c \in Clients : OpComplete(c)
    \/ \E c \in Clients : NegotiationNeeded(c)
    \/ \E c \in Clients : LocalIceCandidate(c)
    \/ \E c \in Clients : ConnectionStateConnected(c)
    \/ \E c \in Clients : ConnectionStateFailed(c)
    \/ \E c \in Clients : Deliver(c)
    \/ \E c \in Clients : HangUp(c)

CallSpec == CallInit /\ [][CallNext]_vars

\* one video call between the two clients, with the video button
VideoNext ==
    \/ \E c \in Clients : callsPlaced = 0 /\ InitiateCall(c)
    \/ \E c \in Clients, ok \in BOOLEAN : AcceptCall(c, ok)
    \/ \E c \in Clients : RejectCall(c)
    \/ \E c \in Clients, ok \in BOOLEAN : MediaResolve(c, ok)
    \/ \E c \in Clients : OrphanMediaResolve(c)
    \/ \E c \in Clients : OpComplete(c)
    \/ \E c \in Clients : NegotiationNeeded(c)
    \/ \E c \in Clients : LocalIceCandidate(c)
    \/ \E c \in Clients : ConnectionStateConnected(c)
    \/ \E c \in Clients : ConnectionStateFailed(c)
    \/ \E c \in Clients : Deliver(c)
    \/ \E c \in Clients : HangUp(c)
    \/ \E c \in Clients : ToggleVideo(c)
    \/ \E c \in Clients, ok \in BOOLEAN : ToggleMediaResolve(c, ok)

VideoSpec == CallInit /\ [][VideoNext]_vars

\* one call between the two clients, with the remote tracks and their playback
TrackNext ==
    \/ \E c \in Clients : callsPlaced = 0 /\ InitiateCall(c)
    \/ \E c \in Clients, ok \in BOOLEAN : AcceptCall(c, ok)
    \/ \E c \in Clients : RejectCall(c)
    \/ \E c \in Clients, ok \in BOOLEAN : MediaResolve(c, ok)
    \/ \E c \in Clients : OrphanMediaResolve(c)
    \/ \E c \in Clients : OpComplete(c)
    \/ \E c \in Clients : NegotiationNeeded(c)
    \/ \E c \in Clients : LocalIceCandidate(c)
    \/ \E c \in Clients : ConnectionStateConnected(c)
    \/ \E c \in Clients : ConnectionStateFailed(c)
    \/ \E c \in Clients : Deliver(c)
    \/ \E c \in Clients : HangUp(c)
    \/ \E c \in Clients : RemoteTrack(c)
    \/ \E c \in Clients, played \in BOOLEAN : PlaySettles(c, played)
    \/ \E c \in Clients, played \in BOOLEAN : PlayRetry(c, played)

TrackSpec == CallInit /\ [][TrackNext]_vars

\* one call between the two clients, while call-ended messages of other chats
\* arrive
ForeignNext ==
    \/ \E c \in Clients : callsPlaced = 0 /\ InitiateCall(c)
    \/ \E c \in Clients, ok \in BOOLEAN : AcceptCall(c, ok)
    \/ \E c \in Clients : RejectCall(c)
    \/ \E c \in Clients, ok \in BOOLEAN : MediaResolve(c, ok)
    \/ \E c \in Clients : OrphanMediaResolve(c)
    \/ \E c \in Clients : OpComplete(c)
    \/ \E c \in Clients : NegotiationNeeded(c)
    \/ \E c \in Clients : LocalIceCandidate(c)
    \/ \E c \in Clients : ConnectionStateConnected(c)
    \/ \E c \in Clients : ConnectionStateFailed(c)
    \/ \E c \in Clients : Deliver(c)
    \/ \E c \in Clients : HangUp(c)
    \/ \E c \in Clients : ForeignCallEnded(c)

ForeignSpec == CallInit /\ [][ForeignNext]_vars

\* one call between the two clients, while a third friend calls either of them
ThirdPartyNext ==
    \/ \E c \in Clients : callsPlaced = 0 /\ InitiateCall(c)
    \* the user accepts the call of the friend of the open chat only
    \/ \E c \in Clients, ok \in BOOLEAN : incomingCall[c] = FriendOf(c) /\ AcceptCall(c, ok)
    \/ \E c \in Clients : RejectCall(c)
    \/ \E c \in Clients, ok \in BOOLEAN : MediaResolve(c, ok)
    \/ \E c \in Clients : OrphanMediaResolve(c)
    \/ \E c \in Clients : OpComplete(c)
    \/ \E c \in Clients : NegotiationNeeded(c)
    \/ \E c \in Clients : LocalIceCandidate(c)
    \/ \E c \in Clients : ConnectionStateConnected(c)
    \/ \E c \in Clients : ConnectionStateFailed(c)
    \/ \E c \in Clients : Deliver(c)
    \/ \E c \in Clients : HangUp(c)
    \* the third user calls a client that shows no call of hers and has answered
    \* no offer yet
    \/ \E c \in Clients : incomingCall[c] # ThirdUser /\ vc[c].answers = 0 /\ ForeignOffer(c)

ThirdPartySpec == CallInit /\ [][ThirdPartyNext]_vars

\* one call between the two clients, during which either connection to the
\* chat server may be lost
LossNext ==
    \/ \E c \in Clients : callsPlaced = 0 /\ InitiateCall(c)
    \/ \E c \in Clients, ok \in BOOLEAN : AcceptCall(c, ok)
    \/ \E c \in Clients : RejectCall(c)
    \/ \E c \in Clients, ok \in BOOLEAN : MediaResolve(c, ok)
    \/ \E c \in Clients : OrphanMediaResolve(c)
    \/ \E c \in Clients : OpComplete(c)
    \/ \E c \in Clients : NegotiationNeeded(c)
    \/ \E c \in Clients : LocalIceCandidate(c)
    \/ \E c \in Clients : ConnectionStateConnected(c)
    \/ \E c \in Clients : ConnectionStateFailed(c)
    \/ \E c \in Clients : Deliver(c)
    \/ \E c \in Clients : HangUp(c)
    \/ \E c \in Clients : CallFailedTimer(c)
    \/ \E c \in Clients : ConnectionLost(c)
    \/ \E p \in BagToSet(pending), ok \in BOOLEAN : OfflineNotice(p, ok)

LossSpec == CallInit /\ [][LossNext]_vars

\* the same, where each client's event loop keeps running: events in the inbox
\* are dispatched, pending operations of the peer link settle, its events fire
FairCallSpec ==
    /\ CallSpec
    /\ \A c \in Clients :
          /\ WF_vars(Deliver(c))
          /\ WF_vars(OpComplete(c))
          /\ WF_vars(NegotiationNeeded(c))
          /\ WF_vars(ConnectionStateConnected(c))

\* what is delivered, queued or timed does happen; a hang-up and a failure of
\* the peer link need not
FairLossSpec ==
    /\ LossSpec
    /\ \A c \in Clients :
          /\ WF_vars(Deliver(c))
          /\ WF_vars(OpComplete(c))
          /\ WF_vars(NegotiationNeeded(c))
          /\ WF_vars(ConnectionStateConnected(c))
          /\ WF_vars(CallFailedTimer(c))
    /\ WF_vars(\E p \in BagToSet(pending) : OfflineNotice(p, TRUE))

FairVideoSpec ==
    /\ VideoSpec
    /\ \A c \in Clients :
          /\ WF_vars(Deliver(c))
          /\ WF_vars(OpComplete(c))
          /\ WF_vars(NegotiationNeeded(c))
          /\ WF_vars(ConnectionStateConnected(c))
          /\ WF_vars(ToggleMediaResolve(c, TRUE))

\* ================================================================== claims
IsOpen(s) == sockState[s] = "open"
IsStatus(e, u, st) ==
    /\ e.mode = "broadcast"
    /\ e.ev = "user_status_change"
    /\ e.data = StatusChange(u, st)
Broadcasts(emits, u, st) == \E i \in 1..Len(emits) : IsStatus(emits[i], u, st)

\* a socket is bound to user u: userSockets maps it to u or it is in u's set
BoundTo(s, u) ==
    \/ MapHas(userSockets, s) /\ userSockets[s] = u
    \/ MapHas(onlineUsers, u) /\ SetHas(onlineUsers[u], s)

\* C1: presence invariant. A user is a key of onlineUsers exactly when a
\* connected socket is bound to it, and no user's set holds the id of a socket
\* whose disconnect was handled.
C1_PresenceInvariant ==
    /\ \A u \in Users : MapHas(onlineUsers, u) <=> \E s \in Sockets : IsOpen(s) /\ BoundTo(s, u)
    /\ \A u \in DOMAIN onlineUsers : \A s \in Elems(onlineUsers[u]) : sockState[s] # "closed"

\* C2: no key of onlineUsers maps to an empty set, in any state, the states
\* with a handler suspended on the database included.
C2_NoEmptySet == \A u \in DOMAIN onlineUsers : Len(onlineUsers[u]) > 0

\* a disconnect handler is suspended after it removed the last socket of its user
C2_Witness ==
    \E p \in DOMAIN pending :
        /\ p.kind = "disconnect"
        /\ ~MapHas(onlineUsers, p.user)
        /\ sockState[p.sock] = "closed"

\* C3: an 'online' status is broadcast only by a user_join that found the user
\* with no registered socket; a user_join for a user already online broadcasts none.
C3_OnlineOnlyOnFirstJoin ==
    [][\A p \in DOMAIN pending :
          (/\ p.kind = "user_join"
           /\ pending' = pending (-) SetToBag({p})
           /\ Broadcasts(out', p.user, "online"))
          => ~p.wasOnline]_vars

C6_OfferToOffline ==
    (handled.kind = "webrtc_offer" /\ ~MapHas(onlineUsers, handled.data.to))
    => out = <<[mode |-> "self", sock |-> handled.sock, ev |-> "call_failed",
                data |-> [reason |-> "User is offline"]]>>

\* the sender is registered, the recipient is not
C6_Witness ==
    /\ handled.kind = "webrtc_offer"
    /\ ~MapHas(onlineUsers, handled.data.to)
    /\ MapHas(userSockets, handled.sock)
    /\ Len(out) = 1

\* C7: webrtc_call_ended for a user is emitted once to each socket of the
\* user's set and to no socket outside it.
C7_CallEndedFanOut ==
    (handled.kind = "webrtc_call_ended" /\ MapHas(onlineUsers, handled.data.to))
    => /\ Len(out) = Len(onlineUsers[handled.data.to])
       /\ \A s \in Elems(onlineUsers[handled.data.to]) :
             Cardinality({i \in 1..Len(out) : out[i].sock = s}) = 1
       /\ \A i \in 1..Len(out) :
             /\ out[i].mode = "to"
             /\ out[i].ev = "webrtc_call_ended"
             /\ out[i].data = handled.data
             /\ SetHas(onlineUsers[handled.data.to], out[i].sock)

\* the recipient has two registered sockets
C7_Witness ==
    /\ handled.kind = "webrtc_call_ended"
    /\ MapHas(onlineUsers, handled.data.to)
    /\ Len(onlineUsers[handled.data.to]) >= 2
    /\ Len(out) >= 2

\* ------------------------------------------------------------------ call setup
\* alice called bob, bob accepted, both components hold a live local stream
C8_Accepted ==
    /\ vc[1].mounted /\ vc[1].initiator /\ vc[1].media = "live"
    /\ vc[2].mounted /\ ~vc[2].initiator /\ vc[2].media = "live"

C8_Connected ==
    /\ vc[2].answers > 0
    /\ vc[1].status = "connected"
    /\ vc[2].status = "connected"

C8_Abandoned == ~vc[1].mounted \/ ~vc[2].mounted

\* C8: when alice has initiated a call to bob, bob has accepted it and media
\* acquisition succeeded on both sides, then, unless one of them ends the call,
\* bob's call session eventually has sent a webrtc_answer and both call sessions
\* are in the 'connected' phase.
C8_EndToEndSetup == C8_Accepted ~> (C8_Connected \/ C8_Abandoned)

\* C9: whenever a webrtc_offer is dispatched on a client whose earlier call has
\* ended and whose VideoCall component has unmounted, Chat's listener receives
\* it as an incoming call and the prompt is raised.
C9_RepeatedCallsPrompt ==
    \A c \in Clients :
        (/\ lastRecv.sock = c /\ lastRecv.ev = "webrtc_offer"
         /\ vc[c].status = "ended" /\ ~vc[c].mounted)
            => (lastRecv.chat /\ incomingCall[c] # NoUser)

AllGone(u) ==
    \A s \in Sockets :
        (MapHas(onlineUsers, u) /\ SetHas(onlineUsers[u], s)) => sockState[s] = "closed"

\* C17: once the server has started to handle the disconnect of a user's only
\* registered socket the user is no key of onlineUsers, and an offer handled
\* for a user whose registered sockets are all gone is answered with call_failed
\* on the sending socket and forwarded nowhere.
C17_GoneAfterLastDisconnect ==
    /\ \A u \in Users : AllGone(u) => ~MapHas(onlineUsers, u)
    /\ (handled.kind = "webrtc_offer" /\ AllGone(handled.data.to))
           => out = <<EmitSelf(handled.sock, "call_failed", CallFailed)>>

\* C18: a signaling event of any of the four kinds for a user with no registered
\* socket is forwarded nowhere and is answered with one call_failed on the
\* sending socket.
C18_UnreachableFails ==
    (/\ handled.kind \in {"webrtc_offer", "webrtc_answer", "webrtc_ice_candidate",
                          "webrtc_call_ended"}
     /\ ~MapHas(onlineUsers, handled.data.to))
    => /\ Len(out) = 1
       /\ out[1].mode = "self"
       /\ out[1].ev = "call_failed"

\* ------------------------------------------------------------------ candidates
\* C11: a remote candidate dispatched on a client that is being called or is in
\* a call, while its peer link has no remote description (or does not exist
\* yet), is kept for the flush that follows setRemoteDescription: it is in
\* iceCandidatesQueue after the dispatch.
C11_EarlyCandidatesKept ==
    \A c \in Clients :
        (/\ lastRecv.sock = c
         /\ lastRecv.ev = "webrtc_ice_candidate"
         /\ ~vc[c].remote
         /\ \/ incomingCall[c] # NoUser
            \/ vc[c].mounted /\ vc[c].media \in {"pending", "live"})
        => queue[c] # <<>>

\* ------------------------------------------------------------------ release
\* C12: a call session that is 'ended', by whichever trigger, holds no live
\* local track and no open peer link.
C12_EndedReleasesMedia ==
    \A c \in Clients :
        vc[c].status = "ended" => (vc[c].media # "live" /\ vc[c].pc # "open")

\* C13: when a call session that acquired its local stream has ended and its
\* component has unmounted, cleanup has run exactly once for it.
C13_CleanupOnce ==
    \A c \in Clients :
        (/\ vc[c].status = "ended" /\ ~vc[c].mounted
         /\ vc[c].media \in {"live", "stopped"})
        => vc[c].cleanups = 1

\* ------------------------------------------------------------------ one setup
\* C16: in a call that alice placed and bob accepted, once both sessions are
\* 'connected' the responder's session has sent exactly one webrtc_answer and
\* the initiator's session none: the one offer of the initiator was answered
\* once.
C16_OneAnswerPerSetup ==
    (C8_Accepted /\ vc[1].status = "connected" /\ vc[2].status = "connected")
        => (vc[2].answers = 1 /\ vc[1].answers = 0)

\* ------------------------------------------------------------------ hang-up
\* C19: after a webrtc_call_ended from the other party is dispatched on a client,
\* the client has no call session left mounted and shows no incoming-call prompt.
C19_HangUpEndsBoth ==
    \A c \in Clients :
        (lastRecv.sock = c /\ lastRecv.ev = "webrtc_call_ended")
            => (~vc[c].mounted /\ incomingCall[c] = NoUser)

\* the step in which the replaceTrack of a turn-on completes in session c
TurnOnCompletes(c) ==
    /\ vc[c].senderTrack > 0
    /\ vc'[c].senderTrack > vc[c].senderTrack

\* both sessions are connected and neither has an offer outstanding
BothConnectedStable ==
    \A c \in Clients :
        /\ vc[c].mounted
        /\ vc[c].status = "connected"
        /\ vc[c].pc = "open"
        /\ vc[c].sig = "stable"

\* C14: turning video off and on again in a connected session starts a
\* renegotiation: when the turn-on completes, the negotiationneeded event of
\* the toggling side is due, from which its one new webrtc_offer is sent
C14_ToggleRenegotiates ==
    [][\A c \in Clients :
          (BothConnectedStable /\ TurnOnCompletes(c)) => vc'[c].negEvent]_vars

\* no turn-on of session c is under way
ToggleIdle(c) ==
    /\ vc[c].acquiring = 0
    /\ \A i \in 1..Len(chain[c]) : chain[c][i].op # "replaceTrack"

\* C15: over any sequence of video toggles the open peer link keeps its one
\* video sender, and once a turn-on has completed the sender carries the most
\* recently acquired track
C15_SenderReplaced ==
    \A c \in Clients :
        vc[c].pc = "open" =>
            /\ vc[c].senders = 1
            /\ ToggleIdle(c) => vc[c].senderTrack = vc[c].lastTrack

\* a session whose video was turned off and on again, the sender carrying the new track
C15_Witness ==
    \E c \in Clients :
        /\ vc[c].pc = "open"
        /\ vc[c].toggles = 2
        /\ ~vc[c].videoOff
        /\ ToggleIdle(c)
        /\ vc[c].senderTrack = 2

\* the other client of the call
Peer(c) == CHOOSE d \in Clients : d # c

\* client c's connection to the chat server is gone while its peer is in a
\* connected call session
LostDuringCall(c) ==
    /\ sockState[c] = "closed"
    /\ vc[Peer(c)].mounted
    /\ vc[Peer(c)].status = "connected"

\* C20: when a user's connection to the chat server is lost during a call, the
\* other user's call session eventually reaches 'ended'
C20_LossEndsCall ==
    \A c \in Clients : LostDuringCall(c) ~> (vc[Peer(c)].status = "ended")

\* the step's emissions are one user_status_change broadcast for user u
LastStatusFor(u) ==
    /\ Len(out) = 1
    /\ out[1].mode = "broadcast"
    /\ out[1].ev = "user_status_change"
    /\ out[1].data.userId = u

\* C21: the status broadcasts of one user follow the user's registry
\* transitions: when the latest broadcast for the user has just been emitted
\* and no handler is suspended on the database, it says 'online' exactly when
\* the user is a key of onlineUsers
C21_StatusOrder ==
    \A u \in Users :
        (pending = EmptyBag /\ LastStatusFor(u))
            => (out[1].data.status = "online" <=> MapHas(onlineUsers, u))

\* a handler that was suspended after changing the user's membership resumes in this step
Resumes(p) ==
    /\ BagIn(p, pending)
    /\ pending' = pending (-) SetToBag({p})

\* C22: a user_join that took the user's socket set from empty to non-empty
\* broadcasts 'online' once when it resumes, and a disconnect that emptied the
\* set broadcasts 'offline' once, whether or not the database update succeeded
C22_OneBroadcastPerTransition ==
    [][\A p \in DOMAIN pending :
          (Resumes(p) /\ (p.kind = "user_join" => ~p.wasOnline)) =>
              /\ Len(out') = 1
              /\ IsStatus(out'[1], p.user,
                          IF p.kind = "user_join" THEN "online" ELSE "offline")]_vars

\* C30: the disconnect of a socket that never sent user_join leaves onlineUsers
\* and userSockets as they were, broadcasts nothing and starts no database update
C30_UnboundDisconnectNoOp ==
    [][\A s \in Sockets :
          (IsOpen(s) /\ sockState'[s] = "closed" /\ ~MapHas(userSockets, s))
              => /\ onlineUsers' = onlineUsers
                 /\ userSockets' = userSockets
                 /\ pending' = pending
                 /\ out' = <<>>]_vars

\* a socket has just disconnected without having joined, while a user is online
C30_Witness ==
    /\ handled.kind = "disconnect"
    /\ handled.data.to = NoUser
    /\ onlineUsers # EmptyMap

\* C23: a session that received call_failed runs its end-of-call handling
\* (onEndCall) once, also when the user hangs up before the delayed end fires
C23_CallFailedEndsOnce ==
    \A c \in Clients : vc[c].error = "offline" => vc[c].endCalls <= 1

\* client c's socket dispatches a webrtc_call_ended of another chat in this step
ReceivesOtherChatEnded(c) ==
    /\ inbox[c] # <<>>
    /\ Head(inbox[c]).ev = "webrtc_call_ended"
    /\ ~(Head(inbox[c]).data.chatId = ChatId)
    /\ lastRecv'.sock = c
    /\ lastRecv'.ev = "webrtc_call_ended"

\* C24: a webrtc_call_ended whose chatId differs from the session's leaves the
\* session as it was (phase, media, peer link and its queued operations, the
\* call view) and nothing is sent; only a matching one ends the session
C24_OtherChatIgnored ==
    [][\A c \in Clients :
          ReceivesOtherChatEnded(c)
              => /\ vc'[c] = vc[c]
                 /\ chain'[c] = chain[c]
                 /\ inCall'[c] = inCall[c]
                 /\ out' = <<>>]_vars

\* a mounted session has just received a webrtc_call_ended and is still running
C24_Witness ==
    \E c \in Clients :
        /\ lastRecv.sock = c
        /\ lastRecv.ev = "webrtc_call_ended"
        /\ vc[c].mounted
        /\ vc[c].status = "connected"
        /\ inCall[c]

\* C25: a session whose peer link reported a failed or disconnected connection
\* is ended as by a hang-up: its phase is 'ended', the tracks of its local
\* stream are stopped and the peer link is closed
C25_LinkFailureCleansUp ==
    \A c \in Clients :
        vc[c].conn = "failed"
            => /\ vc[c].status = "ended"
               /\ vc[c].pc = "closed"
               /\ vc[c].media = "stopped"

\* the server has just handled a signaling message sent by client c
SentBy(c) ==
    /\ handled'.kind \in {"webrtc_offer", "webrtc_answer", "webrtc_ice_candidate",
                          "webrtc_call_ended"}
    /\ handled'.data.to = FriendOf(c)

\* C26: a session whose media acquisition failed is 'ended' with an error, has
\* no peer link, and sends no signaling message, neither at the failure nor later
C26_MediaFailureSilent ==
    [][\A c \in Clients :
          (vc[c].mounted /\ vc[c].media = "failed")
              => /\ vc[c].status = "ended"
                 /\ vc[c].error = "media"
                 /\ vc[c].pc = "none"
                 /\ ~SentBy(c)]_vars

\* C27: when the media acquisition of a cancelled session resolves, the
\* tracks of the stream are stopped, the stream is attached to no session, no
\* peer link is created and nothing is sent
C27_LateMediaDiscarded ==
    [][\A c \in Clients :
          orphanMedia'[c].pending < orphanMedia[c].pending
              => /\ orphanMedia'[c].live = 0
                 /\ vc' = vc
                 /\ chain' = chain
                 /\ out' = <<>>]_vars

\* the acquisition of a session that was cancelled meanwhile has just resolved
C27_Witness ==
    \E c \in Clients :
        /\ lastRecv.sock = c
        /\ lastRecv.ev = "getUserMedia"
        /\ vc[c].media = "cancelled"
        /\ orphanMedia[c].live = 0

ReceivesAnswer(c) ==
    /\ inbox[c] # <<>>
    /\ Head(inbox[c]).ev = "webrtc_answer"
    /\ lastRecv'.sock = c
    /\ lastRecv'.ev = "webrtc_answer"

\* C29: a webrtc_answer that reaches a session without a peer link, or whose
\* link is stable, is dropped: the session (remote description, phase, error),
\* its candidate queue and its link operations are unchanged and nothing is sent
C29_StrayAnswerDropped ==
    [][\A c \in Clients :
          (ReceivesAnswer(c) /\ (vc[c].pc = "none" \/ vc[c].sig = "stable"))
              => /\ vc'[c] = vc[c]
                 /\ queue'[c] = queue[c]
                 /\ chain'[c] = chain[c]
                 /\ out' = <<>>]_vars

\* a running session with a stable link has just received an answer
C29_Witness ==
    \E c \in Clients :
        /\ lastRecv.sock = c
        /\ lastRecv.ev = "webrtc_answer"
        /\ vc[c].mounted
        /\ vc[c].pc = "open"
        /\ vc[c].sig = "stable"
        /\ \A i \in 1..Len(chain[c]) : chain[c][i].op # "setRemoteAnswer"

\* C31: a connected socket belongs to one user at most: its id is in
\* onlineUsers[w] exactly when userSockets maps it to w, also after it sent
\* user_join a second time with another user id
C31_OneIdentityPerSocket ==
    \A s \in Sockets : \A w \in Users :
        IsOpen(s) =>
            ((MapHas(onlineUsers, w) /\ SetHas(onlineUsers[w], s))
                <=> (MapHas(userSockets, s) /\ userSockets[s] = w))

\* C32: an initiator's session in phase 'ringing' has acquired its media and
\* has made its offer the local description and sent it
C32_RingingAfterOffer ==
    \A c \in Clients :
        (vc[c].mounted /\ vc[c].initiator /\ vc[c].status = "ringing")
            => (vc[c].media = "live" /\ vc[c].localDesc)

\* the phase changes the state diagram of a call session allows
PhaseMoves ==
    {<<"connecting", "ringing">>, <<"connecting", "connected">>, <<"ringing", "connected">>,
     <<"connecting", "ended">>, <<"ringing", "ended">>, <<"connected", "ended">>}

\* Chat renders a new VideoCall for client c in this step
NewSession(c) == ~vc[c].mounted /\ vc'[c].mounted

\* C33: the phase of a session moves only along connecting -> ringing ->
\* connected -> ended or directly to ended; only an initiator's session is ever
\* 'ringing' and 'ended' is never left
C33_PhaseOrder ==
    [][\A c \in Clients :
          /\ vc[c].status = "ringing" => vc[c].initiator
          /\ \/ NewSession(c)
             \/ vc'[c].status = vc[c].status
             \/ <<vc[c].status, vc'[c].status>> \in PhaseMoves
                   /\ (vc'[c].status = "ringing" => vc[c].initiator)]_vars

\* a session that ended with its peer link closed, after a late offer or
\* answer arrived for it
C33_Witness ==
    \E c \in Clients :
        /\ vc[c].status = "ended"
        /\ vc[c].pc = "closed"
        /\ lastRecv.sock = c
        /\ lastRecv.ev \in {"webrtc_offer", "webrtc_answer"}

\* C34: once the first remote track has arrived and its playback was refused,
\* the phase of the session is 'connected' all the same
C34_ConnectedWithoutPlayback ==
    \A c \in Clients :
        (vc[c].mounted /\ vc[c].remoteStream /\ vc[c].play \in {"retry", "blocked"})
            => vc[c].status = "connected"

\* C35: when both users call each other at the same time, each session gets
\* the other's offer while its own is outstanding; one of the two offers is
\* answered and the other is discarded, so the two sessions never both answer
C35_GlareOneAnswer ==
    (/\ vc[1].mounted /\ vc[1].initiator
     /\ vc[2].mounted /\ vc[2].initiator)
        => ~(vc[1].answers > 0 /\ vc[2].answers > 0)

\* C36: signaling of a third user changes no call session between alice and
\* bob: no session applies an offer of the third user as its remote
\* description and none sends a webrtc_answer to the third user
C36_ThirdPartyIgnored ==
    /\ \A c \in Clients : \A i \in 1..Len(chain[c]) : chain[c][i].from # ThirdUser
    /\ handled.kind = "webrtc_answer" => handled.data.to # ThirdUser

\* the socket of client c dispatches a webrtc_offer of the peer for this chat
\* while c has a mounted call session
OfferDuringSession(c) ==
    /\ vc[c].mounted
    /\ sockState[c] = "open"
    /\ inbox[c] # <<>>
    /\ Head(inbox[c]).ev = "webrtc_offer"
    /\ Head(inbox[c]).data.from = FriendOf(c)
    /\ Head(inbox[c]).data.chatId = ChatId
    /\ inbox'[c] = Tail(inbox[c])

\* C37: an offer that arrives while the client has an active call session with
\* the sender for the same chat raises no incoming-call prompt: incomingCall
\* stays null
C37_NoPromptDuringSession ==
    [][\A c \in Clients :
          (OfferDuringSession(c) /\ incomingCall[c] = NoUser) => incomingCall'[c] = NoUser]_vars

\* C38: when the caller has several registered sockets, the webrtc_answer and
\* the ICE candidates that the server relays right after an offer of socket s,
\* addressed to the user of s, are delivered to s
C38_AnswerToOfferingSocket ==
    [][\A s \in Sockets :
          (/\ handled.kind = "webrtc_offer"
           /\ handled.sock = s
           /\ MapHas(userSockets, s)
           /\ handled'.kind \in {"webrtc_answer", "webrtc_ice_candidate"}
           /\ handled'.data.to = userSockets[s])
          => (out' # <<>> /\ \A i \in 1..Len(out') : out'[i].sock = s)]_vars

\* C39: every user_status_change the server broadcasts agrees with the
\* registry: 'offline' names a user without a registered socket, 'online' a
\* user with at least one
C39_StatusMatchesRegistry ==
    \A i \in 1..Len(out) : \A u \in Users :
        /\ IsStatus(out[i], u, "offline") => ~MapHas(onlineUsers, u)
        /\ IsStatus(out[i], u, "online") => MapHas(onlineUsers, u)

\* C40: a call session sends webrtc_call_ended at most once: its handleEndCall,
\* which emits the event each time it runs, runs at most once per session
C40_OneCallEnded ==
    \A c \in Clients : vc[c].endCalls <= 1

====
